---- MODULE Spec2Model ----
(***************************************************************************)
(* Job-status tracking of the virtual try-on frontend:                     *)
(*   - inferenceService.startPolling / stopPolling / stopAllPolling        *)
(*   - the useInferenceStatus hook (realtime channel + poll loop)          *)
(*   - runpodService.pollJobStatus and the useRunPodJob hook               *)
(***************************************************************************)
EXTENDS Integers, Sequences, FiniteSets, TLC

(* ------------------------------ bounds -------------------------------- *)
MaxSessions == 2        \* startPolling calls explored
MaxReq == 3             \* status requests explored per poll session
MaxReqRealtime == 2     \* ... when the realtime channel is enabled as well
MaxEvents == 2          \* realtime fragments (events + row updates) explored
HintMaxAttempts == 2    \* a value of the x-poll-max-attempts header
HintTimeout == 3        \* a value of the x-poll-timeout header (seconds)
HintInterval == 1        \* a value of the x-poll-interval header (seconds)
HintRetryAfter == 7      \* a value of the retry-after header (seconds)
RpLongInterval == 20000  \* a value of options.initialInterval of useRunPodJob
MaxJobs == 1            \* startJob calls explored
MaxRpAttempts == 2      \* largest options.maxAttempts of useRunPodJob explored
MaxTryAttempts == 2     \* largest explicit maxAttempts of waitForTryOnCompletion

(* ------------------------- program constants -------------------------- *)
InitialInterval == 2000       \* manager.currentInterval
InitialMaxAttempts == 30      \* manager.maxAttempts
InitialTotalTimeout == 300000 \* manager.totalTimeout
DefaultPollInterval == 5      \* x-poll-interval default
DefaultPollMaxAttempts == 30  \* x-poll-max-attempts default
DefaultPollTimeout == 300     \* x-poll-timeout default
DefaultRetryAfter == 5        \* retry-after default
RpInitialInterval == 2000     \* useRunPodJob options.initialInterval default
RpMaxInterval == 30000        \* cap of pollJobStatus' backoff
TryOnDefaultMaxAttempts == 30 \* waitForTryOnCompletion: maxAttempts default
TryOnDefaultDelayMs == 3000   \* waitForTryOnCompletion: delayMs default

NoTask == "null"
TaskIds == {"A", "B"}
NoErr == ""
Statuses == {"IN_QUEUE", "IN_PROGRESS", "COMPLETED", "FAILED", "CANCELLED"}
Terminal == {"COMPLETED", "FAILED", "CANCELLED"}

Max(a, b) == IF a >= b THEN a ELSE b

(* InferenceTaskStatusResponse; status "null" stands for state.status = null *)
NullStatus ==
  [task_id |-> NoTask, status |-> "null", progress |-> 0, message |-> "",
   results_count |-> 0, error_message |-> NoErr]

(* Bodies GET /inference_tasks/{id}/status answers with *)
StatusBodies ==
  { [status |-> "IN_QUEUE", progress |-> 0, results_count |-> 0, error_message |-> NoErr],
    [status |-> "IN_PROGRESS", progress |-> 40, results_count |-> 0, error_message |-> NoErr],
    [status |-> "COMPLETED", progress |-> 100, results_count |-> 1, error_message |-> NoErr],
    [status |-> "FAILED", progress |-> 40, results_count |-> 0, error_message |-> "boom"],
    [status |-> "FAILED", progress |-> 0, results_count |-> 0, error_message |-> NoErr],
    [status |-> "CANCELLED", progress |-> 40, results_count |-> 0, error_message |-> NoErr] }

(* getTaskStatus: pollingInfo when the response carries no polling header *)
DefaultPollingInfo ==
  [recommendedInterval |-> DefaultPollInterval, maxAttempts |-> DefaultPollMaxAttempts,
   timeout |-> DefaultPollTimeout, shouldStop |-> FALSE]

(* getTaskStatus: pollingInfo parsed from x-poll-stop, x-poll-max-attempts
   or x-poll-timeout *)
LimitPollingInfos ==
  { DefaultPollingInfo,
    [DefaultPollingInfo EXCEPT !.shouldStop = TRUE],
    [DefaultPollingInfo EXCEPT !.maxAttempts = HintMaxAttempts],
    [DefaultPollingInfo EXCEPT !.timeout = HintTimeout] }

(* a variant with twice the jitter range: 0.8 + Math.random() * 0.8 *)
JitteredIntervalWide(baseInterval, k) ==
  (2 * baseInterval * (2000 + 2 * k) + 2500) \div 5000

(* Math.round(baseInterval * (0.8 + Math.random() * 0.4)), random = k/1000 *)
JitteredInterval(baseInterval, k) ==
  (2 * baseInterval * (2000 + k) + 2500) \div 5000

VARIABLES
  taskId,             \* options.taskId of useInferenceStatus
  enableRealtime,     \* options.enableRealtime
  enablePolling,      \* options.enablePolling
  mounted,            \* the hook's component is mounted
  state,              \* InferenceStatusState
  hasCompletedRef,
  lastStatusRef,
  realtimeChannelRef, \* task id the channel is subscribed for, or NoTask
  chanStatus,         \* last status the channel reported to subscribe()
  rendered,           \* closure of the effects that ran last
  fetches,            \* getTaskResults promises pending in updateStatus
  consumer,           \* calls of the consumer's onComplete / onError
  usedTasks,          \* task ids the hook was given so far
  nFragments,         \* realtime fragments delivered so far
  sessions,           \* PollingManager + position of poll(), per startPolling call
  activePollers,      \* inferenceService.activePollers
  nSessions,          \* startPolling calls so far
  now,                \* Date.now()
  scenario,           \* which inputs are explored: "hook" or "poll"
  monitor             \* how far the inputs so far follow scenario A or B

infVars ==
  <<taskId, enableRealtime, enablePolling, mounted, state, hasCompletedRef,
    lastStatusRef, realtimeChannelRef, chanStatus, rendered, fetches, consumer,
    usedTasks, nFragments, sessions, activePollers, nSessions, now, scenario, monitor>>

VARIABLES
  jobState,           \* RunPodJobState of useRunPodJob
  isMountedRef,
  pollingActiveRef,
  localStorage,       \* the entry stored under runpod_job_<id>, or NoEntry
  loops,              \* position and locals of poll(), per pollJobStatus call
  nJobs,              \* jobs created so far
  rpMaxAttempts,      \* options.maxAttempts of useRunPodJob
  rpConsumer,         \* calls of the consumer's callbacks
  rpPending           \* createJob / cancelJob / checkStatus requests in flight

rpVars ==
  <<jobState, isMountedRef, pollingActiveRef, localStorage, loops, nJobs,
    rpMaxAttempts, rpConsumer, rpPending>>

VARIABLES
  tryOn               \* the waitForTryOnCompletion call: arguments and position

tryVars == <<tryOn>>

vars == <<infVars, rpVars, tryVars>>

(* One record of everything the code under test can change *)
World ==
  [taskId |-> taskId, mounted |-> mounted, state |-> state,
   hasCompleted |-> hasCompletedRef, lastStatus |-> lastStatusRef,
   channel |-> realtimeChannelRef, chanStatus |-> chanStatus,
   rendered |-> rendered, fetches |-> fetches, consumer |-> consumer,
   sessions |-> sessions, activePollers |-> activePollers,
   nSessions |-> nSessions]

SetWorld(w) ==
  /\ taskId' = w.taskId
  /\ mounted' = w.mounted
  /\ state' = w.state
  /\ hasCompletedRef' = w.hasCompleted
  /\ lastStatusRef' = w.lastStatus
  /\ realtimeChannelRef' = w.channel
  /\ chanStatus' = w.chanStatus
  /\ rendered' = w.rendered
  /\ fetches' = w.fetches
  /\ consumer' = w.consumer
  /\ sessions' = w.sessions
  /\ activePollers' = w.activePollers
  /\ nSessions' = w.nSessions

(* ----------------------- useInferenceStatus ---------------------------- *)

(* setState: React drops updates of an unmounted component *)
SetState(w, newState) == IF w.mounted THEN [w EXCEPT !.state = newState] ELSE w

(* the consumer's onComplete / onError; a call made for a task the hook no
   longer tracks (taskId changed or unmounted) is counted as late *)
InWindow(w, tid) == w.mounted /\ w.taskId = tid

CallOnComplete(w, tid) ==
  IF InWindow(w, tid) THEN [w EXCEPT !.consumer[tid].onComplete = @ + 1]
  ELSE [w EXCEPT !.consumer[tid].late = @ + 1]

CallOnError(w, tid) ==
  IF InWindow(w, tid) THEN [w EXCEPT !.consumer[tid].onError = @ + 1]
  ELSE [w EXCEPT !.consumer[tid].late = @ + 1]

(* updateStatus(newStatus, source), in the closure of task tid *)
UpdateStatus(w, newStatus, source, tid) ==
  LET w1 == SetState(w, [w.state EXCEPT !.status = newStatus, !.source = source])
      changed == newStatus.status # w1.lastStatus
      w2 == IF changed THEN [w1 EXCEPT !.lastStatus = newStatus.status] ELSE w1
      w3 == IF changed /\ newStatus.status = "FAILED" /\ newStatus.error_message # NoErr
            THEN CallOnError(w2, tid) ELSE w2
      first == newStatus.status \in Terminal /\ ~w3.hasCompleted
      w4 == IF first THEN [w3 EXCEPT !.hasCompleted = TRUE] ELSE w3
  IN  IF first /\ newStatus.status = "COMPLETED"
      THEN [w4 EXCEPT !.fetches[tid] = @ + 1]
      ELSE w4

(* getStatusMessage(status, progress) *)
GetStatusMessage(status, progress) ==
  CASE status = "IN_QUEUE" -> "Tache en attente de traitement"
    [] status = "IN_PROGRESS" ->
         IF progress < 30 THEN "Preparation des images..."
         ELSE IF progress < 60 THEN "Envoi a Runpod..."
         ELSE IF progress < 90 THEN "Traitement en cours..."
         ELSE "Finalisation..."
    [] status = "COMPLETED" -> "Traitement termine avec succes"
    [] status = "FAILED" -> "Echec du traitement"
    [] status = "CANCELLED" -> "Traitement annule"
    [] OTHER -> "Statut: " \o status

(* Rows of inference_task_event the channel can deliver; an absent payload
   field is "" (0 for progress), which JavaScript's || treats like a 0 *)
RealtimeEvents ==
  { [event_type |-> "STATE", status |-> "IN_PROGRESS", progress |-> 0, message |-> "", error |-> NoErr],
    [event_type |-> "STATE", status |-> "COMPLETED", progress |-> 0, message |-> "", error |-> NoErr],
    [event_type |-> "STATE", status |-> "FAILED", progress |-> 0, message |-> "", error |-> "boom"],
    [event_type |-> "STATE", status |-> "CANCELLED", progress |-> 0, message |-> "", error |-> NoErr],
    [event_type |-> "PROGRESS", status |-> "", progress |-> 40, message |-> "ev", error |-> NoErr],
    [event_type |-> "PROGRESS", status |-> "IN_PROGRESS", progress |-> 100, message |-> "ev", error |-> NoErr],
    [event_type |-> "RESULT", status |-> "COMPLETED", progress |-> 0, message |-> "", error |-> NoErr],
    [event_type |-> "ERROR", status |-> "", progress |-> 0, message |-> "", error |-> "boom"] }

(* handleRealtimeEvent(event), event.inference_task_id = tid *)
HandleRealtimeEvent(w, ev, tid) ==
  LET prev == w.state.status
      base ==
        [task_id |-> tid,
         status |-> IF ev.status # "" THEN ev.status
                    ELSE IF prev.status # "null" THEN prev.status ELSE "IN_QUEUE",
         progress |-> IF ev.progress # 0 THEN ev.progress ELSE prev.progress,
         message |-> IF ev.message # "" THEN ev.message
                     ELSE IF prev.message # "" THEN prev.message ELSE "En attente...",
         results_count |-> prev.results_count,
         error_message |-> IF ev.error # NoErr THEN ev.error ELSE prev.error_message]
      newStatus ==
        IF ev.event_type = "RESULT" /\ ev.status = "COMPLETED"
        THEN [base EXCEPT !.results_count = 1, !.progress = 100]
        ELSE IF ev.event_type = "ERROR"
        THEN [base EXCEPT !.status = "FAILED", !.error_message = ev.error]
        ELSE base
      w1 == UpdateStatus(w, newStatus, "realtime", tid)
  IN  SetState(w1, [w1.state EXCEPT !.events = @ + 1])

(* Rows of inference_task the channel can deliver on UPDATE *)
TaskRows ==
  { [status |-> "IN_PROGRESS", progress |-> 0, output |-> FALSE, error_message |-> NoErr],
    [status |-> "IN_PROGRESS", progress |-> 40, output |-> FALSE, error_message |-> NoErr],
    [status |-> "COMPLETED", progress |-> 100, output |-> TRUE, error_message |-> NoErr],
    [status |-> "FAILED", progress |-> 40, output |-> FALSE, error_message |-> "boom"],
    [status |-> "CANCELLED", progress |-> 40, output |-> FALSE, error_message |-> NoErr] }

(* the inference_task UPDATE handler *)
HandleTaskUpdate(w, row, tid) ==
  UpdateStatus(w,
    [task_id |-> tid, status |-> row.status, progress |-> row.progress,
     message |-> GetStatusMessage(row.status, row.progress),
     results_count |-> IF row.output THEN 1 ELSE 0,
     error_message |-> row.error_message],
    "realtime", tid)

(* the three callbacks the polling effect gives to startPolling *)
PollOnStatusUpdate(w, status, tid) == UpdateStatus(w, status, "polling", tid)

PollOnComplete(w, tid) ==
  CallOnComplete(SetState(w, [w.state EXCEPT !.isPollingActive = FALSE]), tid)

PollOnError(w, error, tid) ==
  CallOnError(
    SetState(w, [w.state EXCEPT !.isPollingActive = FALSE,
                                !.error = "Polling error: " \o error]),
    tid)

(* --------------------------- inferenceService -------------------------- *)

IdleSession ==
  [taskId |-> NoTask, attempts |-> 0, startTime |-> 0, currentInterval |-> 0,
   maxAttempts |-> 0, totalTimeout |-> 0, isActive |-> FALSE,
   pc |-> "idle",          \* idle | status | results | timer | done
   due |-> 0,              \* when the pending setTimeout(poll) is due
   outcome |-> "",         \* how poll() ended: complete | failed | poll-error |
                           \* timeout-attempts | timeout-time | silent
   timedOutOn |-> "",      \* statusResponse.status when it ended by a Timeout error
   stopped |-> FALSE]      \* stopPolling was called during the request in flight

InFlight(m) == m.pc \in {"status", "results"}

(* stopPolling(taskId) *)
StopPolling(w, tid) ==
  LET manager == w.activePollers[tid]
  IN  IF manager # 0
      THEN [w EXCEPT !.sessions[manager].isActive = FALSE, !.activePollers[tid] = 0]
      ELSE w

(* stopPolling(taskId) called from outside poll(): remembers which requests
   of the task were in flight at that moment *)
StopPollingCall(w, tid) ==
  LET w1 == StopPolling(w, tid)
  IN  [w1 EXCEPT !.sessions =
         [s \in DOMAIN @ |->
            IF @[s].taskId = tid /\ InFlight(@[s])
            THEN [@[s] EXCEPT !.stopped = TRUE] ELSE @[s]]]

(* stopAllPolling() *)
StopAllPollingCall(w) ==
  [w EXCEPT
     !.sessions =
        [s \in DOMAIN @ |->
           LET m == @[s]
               registered == m.taskId \in TaskIds /\ w.activePollers[m.taskId] = s
           IN  [m EXCEPT !.isActive = IF registered THEN FALSE ELSE @,
                         !.stopped = IF InFlight(m) THEN TRUE ELSE @]],
     !.activePollers = [t \in TaskIds |-> 0]]

(* startPolling(taskId, ...) up to the first await of poll(), at time t *)
StartPolling(w, tid, t) ==
  LET w1 == StopPollingCall(w, tid)
      n == w.nSessions + 1
      manager ==
        [IdleSession EXCEPT
           !.taskId = tid, !.attempts = 1, !.startTime = t,
           !.currentInterval = InitialInterval,
           !.maxAttempts = InitialMaxAttempts,
           !.totalTimeout = InitialTotalTimeout,
           !.isActive = TRUE, !.pc = "status"]
  IN  [w1 EXCEPT !.nSessions = n, !.sessions[n] = manager, !.activePollers[tid] = n]

(* the end of a poll() call that schedules nothing more; its manager is
   unregistered and unreachable, so only what the session did is kept *)
Finish(w, s, outcome) ==
  [w EXCEPT !.sessions[s] =
     [IdleSession EXCEPT !.taskId = w.sessions[s].taskId, !.pc = "done",
                         !.outcome = outcome]]

(* ... by onError('Timeout: ...') after a response of the given status *)
FinishTimeout(w, s, outcome, status) ==
  [Finish(w, s, outcome) EXCEPT !.sessions[s].timedOutOn = status]

(* `const results = await this.getTaskResults(taskId)` is issued *)
AwaitResults(w, s) ==
  [w EXCEPT !.sessions[s].pc = "results", !.sessions[s].stopped = FALSE,
            !.sessions[s].due = 0]

(* the branch `if (!shouldContinue)` of poll() *)
PollStop(w, s, body, elapsed) ==
  LET tid == w.sessions[s].taskId
      m == w.sessions[s]
      w1 == StopPolling(w, tid)
  IN  CASE body.status = "COMPLETED" -> AwaitResults(w1, s)
        [] body.status = "FAILED" ->
             Finish(PollOnError(w1,
                      IF body.error_message # NoErr THEN body.error_message
                      ELSE "Tache echouee", tid), s, "failed")
        [] body.status \notin {"COMPLETED", "FAILED"} /\ m.attempts >= m.maxAttempts ->
             FinishTimeout(
               PollOnError(w1, "Timeout: nombre maximum de tentatives atteint", tid),
               s, "timeout-attempts", body.status)
        [] body.status \notin {"COMPLETED", "FAILED"} /\ m.attempts < m.maxAttempts
           /\ elapsed >= m.totalTimeout ->
             FinishTimeout(
               PollOnError(w1, "Timeout: temps maximum depasse", tid),
               s, "timeout-time", body.status)
        [] OTHER -> Finish(w1, s, "silent")

(* poll(): getTaskStatus resolved with body and pollingInfo info at time t;
   k is the Math.random() sample *)
PollStatusResolved(w, s, body, info, k, t) ==
  LET tid == w.sessions[s].taskId
      w0 == [w EXCEPT !.sessions[s].maxAttempts = info.maxAttempts,
                      !.sessions[s].totalTimeout = info.timeout * 1000]
  IN  IF info.shouldStop
      THEN LET w1 == StopPolling(w0, tid)
           IN  IF body.status = "COMPLETED" THEN AwaitResults(w1, s)
               ELSE Finish(w1, s, "silent")
      ELSE LET w1 == [w0 EXCEPT !.sessions[s].currentInterval =
                        JitteredInterval(info.recommendedInterval * 1000, k)]
               w2 == PollOnStatusUpdate(w1,
                       [task_id |-> tid, status |-> body.status,
                        progress |-> body.progress, message |-> "srv",
                        results_count |-> body.results_count,
                        error_message |-> body.error_message], tid)
               m == w2.sessions[s]
               elapsed == t - m.startTime
               shouldContinue ==
                 /\ m.isActive
                 /\ m.attempts < m.maxAttempts
                 /\ elapsed < m.totalTimeout
                 /\ body.status \notin Terminal
           IN  IF shouldContinue
               THEN [w2 EXCEPT !.sessions[s].pc = "timer",
                               !.sessions[s].due = t + m.currentInterval]
               ELSE PollStop(w2, s, body, elapsed)

(* poll(): the catch block; httpStatus 429 carries retryAfter seconds *)
PollCatch(w, s, httpStatus, retryAfter, t) ==
  LET m == w.sessions[s]
      tid == m.taskId
  IN  IF httpStatus = 429
      THEN LET interval == Max(m.currentInterval, retryAfter * 1000)
           IN  [w EXCEPT !.sessions[s].currentInterval = interval,
                         !.sessions[s].pc = "timer",
                         !.sessions[s].due = t + interval]
      ELSE Finish(PollOnError(StopPolling(w, tid), "Erreur de polling", tid),
                  s, "poll-error")

(* poll(): `await this.getTaskResults(taskId)` resolved *)
PollResultsResolved(w, s) ==
  Finish(PollOnComplete(w, w.sessions[s].taskId), s, "complete")

(* poll() entered from setTimeout at time t *)
PollTimerFired(w, s, t) ==
  LET m == w.sessions[s]
  IN  IF ~m.isActive THEN Finish(w, s, "silent")
      ELSE [w EXCEPT !.sessions[s].attempts = @ + 1,
                     !.sessions[s].pc = "status",
                     !.sessions[s].due = 0,
                     !.sessions[s].stopped = FALSE]

(* ------------------- useInferenceStatus: the effects ------------------- *)

(* what the effects of a render close over *)
Deps(w) ==
  [ran |-> TRUE, taskId |-> w.taskId,
   isRealtimeConnected |-> w.state.isRealtimeConnected,
   isPollingActive |-> w.state.isPollingActive]

(* cleanup of the "Configuration Realtime" effect *)
RealtimeCleanup(w) ==
  IF w.channel # NoTask THEN [w EXCEPT !.channel = NoTask, !.chanStatus = "none"]
  ELSE w

(* cleanup of the polling effect, closed over the render `old` *)
PollingCleanup(w, old) ==
  IF old.taskId # NoTask /\ enablePolling /\ old.isPollingActive
  THEN LET w1 == StopPollingCall(w, old.taskId)
       IN  SetState(w1, [w1.state EXCEPT !.isPollingActive = FALSE])
  ELSE w

(* cleanup of the "Nettoyage general" effect *)
GeneralCleanup(w, old) ==
  LET w1 == IF old.taskId # NoTask THEN StopPollingCall(w, old.taskId) ELSE w
  IN  [w1 EXCEPT !.hasCompleted = FALSE, !.lastStatus = "null"]

(* body of the "Configuration Realtime" effect *)
RealtimeEffect(w) ==
  IF w.taskId = NoTask \/ ~enableRealtime
  THEN SetState(w, [w.state EXCEPT !.isRealtimeConnected = FALSE])
  ELSE [w EXCEPT !.channel = w.taskId, !.chanStatus = "joining"]

(* body of the polling effect, closed over the render `cur`, at time t *)
PollingEffect(w, cur, t) ==
  IF w.taskId = NoTask \/ ~enablePolling THEN w
  ELSE LET shouldStartPolling ==
             ~enableRealtime \/ ~cur.isRealtimeConnected \/ ~w.hasCompleted
       IN  IF shouldStartPolling /\ ~cur.isPollingActive
           THEN StartPolling(
                  SetState(w, [w.state EXCEPT !.isPollingActive = TRUE]),
                  w.taskId, t)
           ELSE w

(* a render of the hook followed by its effects: the cleanups of the effects
   whose dependencies changed, in order, then their bodies, in order *)
Commit(w, t) ==
  LET old == w.rendered
      cur == Deps(w)
      taskChanged == ~old.ran \/ old.taskId # cur.taskId
      pollChanged == \/ taskChanged
                     \/ old.isRealtimeConnected # cur.isRealtimeConnected
                     \/ old.isPollingActive # cur.isPollingActive
      c1 == IF old.ran /\ taskChanged THEN RealtimeCleanup(w) ELSE w
      c2 == IF old.ran /\ pollChanged THEN PollingCleanup(c1, old) ELSE c1
      c3 == IF old.ran /\ taskChanged THEN GeneralCleanup(c2, old) ELSE c2
      e1 == IF taskChanged THEN RealtimeEffect(c3) ELSE c3
      e2 == IF pollChanged THEN PollingEffect(e1, cur, t) ELSE e1
  IN  [e2 EXCEPT !.rendered = cur]

(* unmount: every cleanup runs *)
UnmountHook(w) ==
  LET old == w.rendered
      w0 == [w EXCEPT !.mounted = FALSE]
  IN  GeneralCleanup(PollingCleanup(RealtimeCleanup(w0), old), old)

(* TIMED_OUT goes through the same expressions as CHANNEL_ERROR *)
ChannelStatuses == {"SUBSCRIBED", "CHANNEL_ERROR", "CLOSED"}

(* the callback given to channel.subscribe() *)
OnSubscribeStatus(w, status) ==
  SetState([w EXCEPT !.chanStatus = status],
    [w.state EXCEPT
       !.isRealtimeConnected = (status = "SUBSCRIBED"),
       !.error = IF status \in {"CHANNEL_ERROR", "TIMED_OUT"}
                 THEN "Connexion Realtime perdue" ELSE "null"])

(* ------------------------------ actions -------------------------------- *)

InfFrame ==
  /\ UNCHANGED <<enableRealtime, enablePolling, scenario>>
  /\ UNCHANGED rpVars /\ UNCHANGED tryVars

(* getTaskStatus: pollingInfo parsed from x-poll-interval *)
IntervalPollingInfos ==
  { DefaultPollingInfo,
    [DefaultPollingInfo EXCEPT !.recommendedInterval = HintInterval] }

(* the retry-after header of a 429 response *)
NoRetryAfter == [present |-> FALSE, seconds |-> 0]
RetryAfterHeaders ==
  IF scenario = "interval"
  THEN {NoRetryAfter, [present |-> TRUE, seconds |-> 0],
        [present |-> TRUE, seconds |-> HintRetryAfter]}
  ELSE {NoRetryAfter}

(* a variant that ignores the header *)
ParseRetryAfterIgnored(header) == DefaultRetryAfter

(* parseInt(error.response.headers['retry-after'] || '5') *)
ParseRetryAfter(header) ==
  IF header.present THEN header.seconds ELSE DefaultRetryAfter

(* The inputs explored. Scenario "poll" explores the stop, attempts and
   timeout headers; scenario "hook" a backend that sends no polling header;
   both take the midpoint of Math.random() and no retry-after header.
   Scenario "interval" explores the interval and retry-after headers and the
   extremes of Math.random(). *)
PollingInfos ==
  CASE scenario = "poll" -> LimitPollingInfos
    [] scenario = "interval" -> IntervalPollingInfos
    [] OTHER -> {DefaultPollingInfo}

RetryAfters == {ParseRetryAfter(h) : h \in RetryAfterHeaders}

JitterSamples == IF scenario = "interval" THEN {0, 999} ELSE {500}

(* the delays do not depend on the body: scenario "interval" keeps the
   session going *)
PollBodies ==
  IF scenario = "interval"
  THEN {b \in StatusBodies : b.status = "IN_PROGRESS"}
  ELSE StatusBodies

NonTerminal == Statuses \ Terminal

(* Scenario A (polling only): the poll responses so far are IN_QUEUE/0, then
   IN_PROGRESS/40, then COMPLETED/100 (A1, A2, A3).  Scenario B (realtime and
   polling): non-terminal poll responses, then a realtime fragment that makes
   the status FAILED with an error message (B1), then a poll response FAILED
   (B2).  Scenario D (realtime and polling): non-terminal poll responses, then
   the channel reports CHANNEL_ERROR, TIMED_OUT or CLOSED (D1), then
   non-terminal poll responses, then a poll response COMPLETED (D2).
   "off": the inputs left the scenarios. *)
MonitorPoll(mon, body, info) ==
  IF info # DefaultPollingInfo THEN "off"
  ELSE IF enableRealtime
  THEN CASE mon = "start" /\ body.status \in NonTerminal -> "start"
         [] mon = "B1" /\ body.status = "FAILED" -> "B2"
         [] mon = "D1" /\ body.status \in NonTerminal -> "D1"
         [] mon = "D1" /\ body.status = "COMPLETED" -> "D2"
         [] OTHER -> "off"
  ELSE CASE mon = "start" /\ body.status = "IN_QUEUE" /\ body.progress = 0 -> "A1"
         [] mon = "A1" /\ body.status = "IN_PROGRESS" /\ body.progress = 40 -> "A2"
         [] mon = "A2" /\ body.status = "COMPLETED" /\ body.progress = 100 -> "A3"
         [] OTHER -> "off"

MonitorRealtime(mon, newStatus) ==
  CASE mon = "start" /\ newStatus.status \in NonTerminal -> "start"
    [] mon = "start" /\ newStatus.status = "FAILED"
       /\ newStatus.error_message # NoErr -> "B1"
    [] OTHER -> "off"

(* React has committed the last state change: no render is pending *)
Stable == ~mounted \/ rendered = Deps(World)

InfInit ==
  /\ taskId = NoTask
  /\ enablePolling = TRUE
  /\ mounted = TRUE
  /\ state = [status |-> NullStatus, events |-> 0, isRealtimeConnected |-> FALSE,
              isPollingActive |-> FALSE, error |-> "null", source |-> "idle"]
  /\ hasCompletedRef = FALSE
  /\ lastStatusRef = "null"
  /\ realtimeChannelRef = NoTask
  /\ chanStatus = "none"
  /\ rendered = [ran |-> FALSE, taskId |-> NoTask, isRealtimeConnected |-> FALSE,
                 isPollingActive |-> FALSE]
  /\ fetches = [t \in TaskIds |-> 0]
  /\ consumer = [t \in TaskIds |-> [onComplete |-> 0, onError |-> 0, late |-> 0]]
  /\ usedTasks = {}
  /\ nFragments = 0
  /\ sessions = [s \in 1..MaxSessions |-> IdleSession]
  /\ activePollers = [t \in TaskIds |-> 0]
  /\ nSessions = 0
  /\ now = 0
  /\ monitor = "start"

(* React renders the hook and runs the effects whose dependencies changed;
   a pending render is committed before the next event is handled *)
Render ==
  /\ mounted
  /\ rendered # Deps(World)
  /\ LET w == Commit(World, now)
     IN  w.nSessions <= MaxSessions /\ SetWorld(w)
  /\ UNCHANGED <<usedTasks, nFragments, now, monitor>> /\ InfFrame

(* scenario "switch" explores a parent that passes task A, then task B *)
TasksExplored == IF scenario = "switch" THEN {"A", "B"} ELSE {"A"}

(* the parent passes the next task id *)
ChangeTaskId ==
  /\ Stable /\ mounted /\ rendered.ran
  /\ \E t \in TasksExplored \ usedTasks :
       /\ \A u \in TasksExplored \ usedTasks : t = "A" \/ u # "A"
       /\ LET w == Commit([World EXCEPT !.taskId = t], now)
          IN  w.nSessions <= MaxSessions /\ SetWorld(w)
       /\ usedTasks' = usedTasks \cup {t}
  /\ UNCHANGED <<nFragments, now, monitor>> /\ InfFrame

Unmount ==
  /\ Stable /\ mounted /\ rendered.ran
  /\ SetWorld(UnmountHook(World))
  /\ UNCHANGED <<usedTasks, nFragments, now, monitor>> /\ InfFrame

ChannelStatus ==
  /\ Stable /\ mounted /\ realtimeChannelRef # NoTask
  /\ \E st \in ChannelStatuses \ {chanStatus} : SetWorld(OnSubscribeStatus(World, st))
  /\ UNCHANGED <<usedTasks, nFragments, now, monitor>> /\ InfFrame

(* the channel reports that it is down while the task is not terminal *)
ChannelDropped ==
  /\ Stable /\ mounted /\ realtimeChannelRef # NoTask
  /\ state.status.status \notin Terminal
  /\ \E st \in ChannelStatuses \ {"SUBSCRIBED", chanStatus} :
       SetWorld(OnSubscribeStatus(World, st))
  /\ monitor' = IF monitor = "start" THEN "D1" ELSE "off"
  /\ UNCHANGED <<usedTasks, nFragments, now>> /\ InfFrame

Subscribed == realtimeChannelRef # NoTask /\ chanStatus = "SUBSCRIBED"

(* INSERT on inference_task_event *)
RealtimeEvent ==
  /\ Stable /\ Subscribed /\ nFragments < MaxEvents
  /\ \E ev \in RealtimeEvents :
       SetWorld(HandleRealtimeEvent(World, ev, realtimeChannelRef))
  /\ monitor' = MonitorRealtime(monitor, state'.status)
  /\ nFragments' = nFragments + 1
  /\ UNCHANGED <<usedTasks, now>> /\ InfFrame

(* UPDATE on inference_task *)
TaskUpdated ==
  /\ Stable /\ Subscribed /\ nFragments < MaxEvents
  /\ \E row \in TaskRows : SetWorld(HandleTaskUpdate(World, row, realtimeChannelRef))
  /\ monitor' = MonitorRealtime(monitor, state'.status)
  /\ nFragments' = nFragments + 1
  /\ UNCHANGED <<usedTasks, now>> /\ InfFrame

(* the getTaskResults promise of updateStatus settles *)
HookResultsResolved ==
  /\ \E tid \in TaskIds :
       /\ Stable /\ fetches[tid] > 0
       /\ SetWorld(CallOnComplete([World EXCEPT !.fetches[tid] = @ - 1], tid))
  /\ UNCHANGED <<usedTasks, nFragments, now, monitor>> /\ InfFrame

HookResultsRejected ==
  /\ \E tid \in TaskIds :
       /\ Stable /\ fetches[tid] > 0
       /\ SetWorld(CallOnError([World EXCEPT !.fetches[tid] = @ - 1], tid))
  /\ monitor' = "off"
  /\ UNCHANGED <<usedTasks, nFragments, now>> /\ InfFrame

StatusResolved ==
  /\ \E s \in 1..MaxSessions, body \in PollBodies, info \in PollingInfos,
        k \in JitterSamples :
       /\ Stable /\ sessions[s].pc = "status"
       /\ SetWorld(PollStatusResolved(World, s, body, info, k, now))
       /\ monitor' = MonitorPoll(monitor, body, info)
  /\ UNCHANGED <<usedTasks, nFragments, now>> /\ InfFrame

StatusRateLimited ==
  /\ \E s \in 1..MaxSessions, r \in RetryAfters :
       /\ Stable /\ sessions[s].pc = "status"
       /\ SetWorld(PollCatch(World, s, 429, r, now))
  /\ monitor' = "off"
  /\ UNCHANGED <<usedTasks, nFragments, now>> /\ InfFrame

StatusFailed ==
  /\ \E s \in 1..MaxSessions :
       /\ Stable /\ sessions[s].pc = "status"
       /\ SetWorld(PollCatch(World, s, 500, DefaultRetryAfter, now))
  /\ monitor' = "off"
  /\ UNCHANGED <<usedTasks, nFragments, now>> /\ InfFrame

ResultsResolved ==
  /\ \E s \in 1..MaxSessions :
       /\ Stable /\ sessions[s].pc = "results"
       /\ SetWorld(PollResultsResolved(World, s))
  /\ UNCHANGED <<usedTasks, nFragments, now, monitor>> /\ InfFrame

ResultsRateLimited ==
  /\ \E s \in 1..MaxSessions, r \in RetryAfters :
       /\ Stable /\ sessions[s].pc = "results"
       /\ SetWorld(PollCatch(World, s, 429, r, now))
  /\ monitor' = "off"
  /\ UNCHANGED <<usedTasks, nFragments, now>> /\ InfFrame

ResultsFailed ==
  /\ \E s \in 1..MaxSessions :
       /\ Stable /\ sessions[s].pc = "results"
       /\ SetWorld(PollCatch(World, s, 500, DefaultRetryAfter, now))
  /\ monitor' = "off"
  /\ UNCHANGED <<usedTasks, nFragments, now>> /\ InfFrame

ReqBound == IF enableRealtime THEN MaxReqRealtime ELSE MaxReq

(* a setTimeout(poll, currentInterval) fires *)
TimerFired ==
  /\ \E s \in 1..MaxSessions :
       /\ Stable /\ sessions[s].pc = "timer"
       /\ sessions[s].isActive => sessions[s].attempts < ReqBound
       /\ LET t == Max(now, sessions[s].due)
          IN  SetWorld(PollTimerFired(World, s, t)) /\ now' = t
  /\ UNCHANGED <<usedTasks, nFragments, monitor>> /\ InfFrame

(* stopAllPolling(), e.g. on navigation *)
StopAllPolling ==
  /\ Stable /\ \E t \in TaskIds : activePollers[t] # 0
  /\ SetWorld(StopAllPollingCall(World))
  /\ UNCHANGED <<usedTasks, nFragments, now, monitor>> /\ InfFrame

(* ----------------------------- runpodService --------------------------- *)

NoJob == 0
JobIds == 1..MaxJobs
NullJobStatus == [job_id |-> NoJob, status |-> "null", error |-> NoErr]

(* bodies of GET /runpod/status/<jobId> *)
JobResponses(jobId) ==
  {[job_id |-> jobId, status |-> st, error |-> NoErr] : st \in Statuses}
    \cup {[job_id |-> jobId, status |-> "FAILED", error |-> "boom"]}

Min(a, b) == IF a <= b THEN a ELSE b

IdleLoop ==
  [jobId |-> NoJob, attempts |-> 0, currentInterval |-> 0, pc |-> "idle",
   outcome |-> "none", stopped |-> FALSE, lastObserved |-> "null"]

RpWorld ==
  [jobState |-> jobState, isMounted |-> isMountedRef,
   pollingActive |-> pollingActiveRef, storage |-> localStorage,
   loops |-> loops, consumer |-> rpConsumer]

SetRpWorld(w) ==
  /\ jobState' = w.jobState
  /\ isMountedRef' = w.isMounted
  /\ pollingActiveRef' = w.pollingActive
  /\ localStorage' = w.storage
  /\ loops' = w.loops
  /\ rpConsumer' = w.consumer

SafeSetState(w, new) == IF w.isMounted THEN [w EXCEPT !.jobState = new] ELSE w

HandleStatusUpdate(w, status) ==
  [SafeSetState(w, [w.jobState EXCEPT !.status = status])
     EXCEPT !.consumer.onStatusUpdate = @ + 1]

(* what JSON.parse(localStorage.getItem('runpod_job_<id>')) gives; status
   "none" stands for a key that is absent (getItem returns null).  The times
   are the Date.now() of the write that set them; getItem, setItem and
   removeItem are taken to succeed. *)
NoEntry ==
  [jobId |-> NoJob, status |-> "none", startTime |-> "", request |-> "",
   result |-> NullJobStatus, completedTime |-> ""]

(* the jobData startJob persists for jobId *)
JobEntry(jobId) ==
  [NoEntry EXCEPT !.jobId = jobId, !.status = "IN_QUEUE",
                  !.startTime = "start", !.request = "jobRequest"]

(* jobData after handleComplete has saved result into it *)
CompletedEntry(jobData, result) ==
  [jobData EXCEPT !.status = "COMPLETED", !.result = result,
                  !.completedTime = "completion"]

(* a variant that saves the result whether or not the entry exists *)
HandleCompleteUpsert(w, result) ==
  LET w1 == [w EXCEPT !.storage[result.job_id] =
               CompletedEntry([NoEntry EXCEPT !.jobId = result.job_id], result)]
      w2 == SafeSetState(w1, [w1.jobState EXCEPT !.isPolling = FALSE,
                                                 !.status = result])
  IN  [w2 EXCEPT !.pollingActive = FALSE, !.consumer.onComplete = @ + 1]

HandleComplete(w, result) ==
  LET w1 == IF w.storage[result.job_id].status # "none"
            THEN [w EXCEPT !.storage[result.job_id] = CompletedEntry(@, result)]
            ELSE w
      w2 == SafeSetState(w1, [w1.jobState EXCEPT !.isPolling = FALSE,
                                                 !.status = result])
  IN  [w2 EXCEPT !.pollingActive = FALSE, !.consumer.onComplete = @ + 1]

HandleError(w, error) ==
  LET w1 == SafeSetState(w, [w.jobState EXCEPT !.isPolling = FALSE,
                                               !.error = error])
  IN  [w1 EXCEPT !.pollingActive = FALSE,
                 !.consumer.onError = @ + 1,
                 !.consumer.lastError = error]

(* the off-by-one variant: one attempt more than maxAttempts *)
RpShouldContinueInclusive(attempts, maxAttempts, status) ==
  attempts <= maxAttempts /\ status # "CANCELLED"

(* "continuer si pas termine et sous les limites" *)
RpShouldContinue(attempts, maxAttempts, status) ==
  attempts < maxAttempts /\ status # "CANCELLED"

(* min(currentInterval * 1.5, 30000) * jitter, jitter in thousandths *)
RpNextInterval(currentInterval, k) ==
  (Min((currentInterval * 3) \div 2, RpMaxInterval) * k) \div 1000

(* a variant that retries a failed request whatever the attempts made *)
RpShouldRetryUnbounded(attempts, maxAttempts, httpStatus) == httpStatus # 404

(* "retry avec backoff en cas d'erreur reseau" *)
RpShouldRetry(attempts, maxAttempts, httpStatus) ==
  attempts < maxAttempts /\ httpStatus # 404

(* poll() returns without a new timer: its locals are dead *)
RpDone(w, j, outcome) ==
  [w EXCEPT !.loops[j].pc = "done", !.loops[j].outcome = outcome,
            !.loops[j].attempts = 0, !.loops[j].currentInterval = 0,
            !.loops[j].stopped = FALSE]

(* poll(): getJobStatus resolved with status *)
RpPollResolved(w, j, status, maxAttempts, k) ==
  LET w0 == [w EXCEPT !.loops[j].lastObserved = status.status]
      w1 == HandleStatusUpdate(w0, status)
      l  == w1.loops[j]
  IN  IF status.status = "COMPLETED"
      THEN RpDone(HandleComplete(w1, status), j, "complete")
      ELSE IF status.status = "FAILED"
      THEN RpDone(HandleError(w1, IF status.error # NoErr THEN status.error
                                  ELSE "Job failed"), j, "failed")
      ELSE IF RpShouldContinue(l.attempts, maxAttempts, status.status)
      THEN [w1 EXCEPT !.loops[j].pc = "timer",
                      !.loops[j].currentInterval = RpNextInterval(@, k)]
      ELSE RpDone(HandleError(w1, "Timeout"), j, "exhausted")

(* poll(): getJobStatus rejected *)
RpPollRejected(w, j, httpStatus, maxAttempts) ==
  IF RpShouldRetry(w.loops[j].attempts, maxAttempts, httpStatus)
  THEN [w EXCEPT !.loops[j].pc = "timer", !.loops[j].currentInterval = @ * 2]
  ELSE RpDone(HandleError(w, "Erreur de polling"), j, "polling-error")

(* setTimeout(poll, ...) fires: attempts++ and the next getJobStatus *)
RpPoll(w, j) ==
  [w EXCEPT !.loops[j].attempts = @ + 1, !.loops[j].pc = "status"]

(* pollJobStatus(jobId, ..., maxAttempts, initialInterval) *)
PollJobStatus(w, jobId, initialInterval) ==
  RpPoll([w EXCEPT !.loops[jobId] =
            [IdleLoop EXCEPT !.jobId = jobId,
                             !.currentInterval = initialInterval]], jobId)

(* ------------------------------ useRunPodJob --------------------------- *)

(* the loops that have not ended are the ones a stop is meant to end *)
MarkStopped(w) ==
  [w EXCEPT !.loops = [j \in JobIds |->
     IF w.loops[j].pc \in {"status", "timer"}
     THEN [w.loops[j] EXCEPT !.stopped = TRUE] ELSE w.loops[j]]]

(* a variant that flips the polling flags instead of clearing them *)
RpTogglePollingCall(w) ==
  MarkStopped(SafeSetState([w EXCEPT !.pollingActive = ~@],
                           [w.jobState EXCEPT !.isPolling = ~@]))

(* stopPolling() *)
RpStopPollingCall(w) ==
  MarkStopped(SafeSetState([w EXCEPT !.pollingActive = FALSE],
                           [w.jobState EXCEPT !.isPolling = FALSE]))

(* startJob, up to the await of createJob *)
StartJobCall(w) ==
  SafeSetState(w, [w.jobState EXCEPT !.error = NoErr, !.isPolling = FALSE])

(* startJob, after createJob resolved with jobId *)
StartJobCreated(w, jobId, initialInterval) ==
  LET w1 == [w EXCEPT !.storage[jobId] = JobEntry(jobId)]
      w2 == SafeSetState(w1, [w1.jobState EXCEPT
                !.jobId = jobId,
                !.status = [job_id |-> jobId, status |-> "IN_QUEUE", error |-> NoErr],
                !.isPolling = TRUE])
  IN  PollJobStatus([w2 EXCEPT !.pollingActive = TRUE], jobId, initialInterval)

StartJobFailed(w) == SafeSetState(w, [w.jobState EXCEPT !.error = "create failed"])

(* cancelJob, after runpodService.cancelJob resolved *)
CancelJobDone(w) ==
  LET w1 == RpStopPollingCall(w)
  IN  SafeSetState(w1, [w1.jobState EXCEPT !.status =
        IF @.status # "null" THEN [@ EXCEPT !.status = "CANCELLED"] ELSE @])

ResetCall(w) ==
  LET w1 == RpStopPollingCall(w)
      w2 == IF w1.jobState.jobId # NoJob
            THEN [w1 EXCEPT !.storage[w1.jobState.jobId] = NoEntry] ELSE w1
  IN  SafeSetState(w2, [jobId |-> NoJob, status |-> NullJobStatus,
                        isPolling |-> FALSE, error |-> NoErr])

CheckStatusDone(w, status) == SafeSetState(w, [w.jobState EXCEPT !.status = status])

RpUnmountHook(w) ==
  MarkStopped([w EXCEPT !.isMounted = FALSE, !.pollingActive = FALSE])

RpFrame == UNCHANGED infVars /\ UNCHANGED rpMaxAttempts /\ UNCHANGED tryVars

(* thousandths of the jitter 0.8 + Math.random() * 0.4; scenario "interval"
   explores its extremes and a caller that passes a long initialInterval *)
RpJitterSamples == IF scenario = "interval" THEN {800, 1000, 1199} ELSE {1000}

RpInitialIntervals ==
  IF scenario = "interval" THEN {RpInitialInterval, RpLongInterval}
  ELSE {RpInitialInterval}

RpInit ==
  /\ jobState = [jobId |-> NoJob, status |-> NullJobStatus,
                 isPolling |-> FALSE, error |-> NoErr]
  /\ isMountedRef = TRUE
  /\ pollingActiveRef = FALSE
  /\ localStorage = [j \in JobIds |-> NoEntry]
  /\ loops = [j \in JobIds |-> IdleLoop]
  /\ nJobs = 0
  /\ rpConsumer = [onStatusUpdate |-> 0, onComplete |-> 0, onError |-> 0,
                   lastError |-> NoErr]
  /\ rpPending = [create |-> FALSE, cancel |-> NoJob, check |-> NoJob]

(* startJob is called; scenario "create" also explores, beyond MaxJobs jobs,
   calls whose createJob rejects *)
RpStartJob ==
  /\ isMountedRef /\ ~rpPending.create
  /\ nJobs < MaxJobs \/ scenario = "create"
  /\ SetRpWorld(StartJobCall(RpWorld))
  /\ rpPending' = [rpPending EXCEPT !.create = TRUE]
  /\ UNCHANGED nJobs /\ RpFrame

RpCreateResolved ==
  /\ rpPending.create /\ nJobs < MaxJobs
  /\ \E initialInterval \in RpInitialIntervals :
       SetRpWorld(StartJobCreated(RpWorld, nJobs + 1, initialInterval))
  /\ nJobs' = nJobs + 1
  /\ rpPending' = [rpPending EXCEPT !.create = FALSE]
  /\ RpFrame

RpCreateRejected ==
  /\ rpPending.create
  /\ SetRpWorld(StartJobFailed(RpWorld))
  /\ rpPending' = [rpPending EXCEPT !.create = FALSE]
  /\ UNCHANGED nJobs /\ RpFrame

RpStatusResolved ==
  /\ \E j \in JobIds, k \in RpJitterSamples :
       /\ loops[j].pc = "status"
       /\ \E status \in JobResponses(j) :
            SetRpWorld(RpPollResolved(RpWorld, j, status, rpMaxAttempts, k))
  /\ UNCHANGED <<nJobs, rpPending>> /\ RpFrame

RpStatusRejected ==
  /\ \E j \in JobIds, httpStatus \in {404, 500} :
       /\ loops[j].pc = "status"
       /\ SetRpWorld(RpPollRejected(RpWorld, j, httpStatus, rpMaxAttempts))
  /\ UNCHANGED <<nJobs, rpPending>> /\ RpFrame

RpTimerFired ==
  /\ \E j \in JobIds :
       /\ loops[j].pc = "timer"
       /\ SetRpWorld(RpPoll(RpWorld, j))
  /\ UNCHANGED <<nJobs, rpPending>> /\ RpFrame

RpStopPolling ==
  /\ isMountedRef
  /\ SetRpWorld(RpStopPollingCall(RpWorld))
  /\ UNCHANGED <<nJobs, rpPending>> /\ RpFrame

(* cancelJob, up to the await of runpodService.cancelJob *)
RpCancelJob ==
  /\ isMountedRef /\ jobState.jobId # NoJob /\ rpPending.cancel = NoJob
  /\ rpPending' = [rpPending EXCEPT !.cancel = jobState.jobId]
  /\ UNCHANGED <<jobState, isMountedRef, pollingActiveRef, localStorage, loops,
                 rpConsumer, nJobs>> /\ RpFrame

RpCancelResolved ==
  /\ rpPending.cancel # NoJob
  /\ SetRpWorld(CancelJobDone(RpWorld))
  /\ rpPending' = [rpPending EXCEPT !.cancel = NoJob]
  /\ UNCHANGED nJobs /\ RpFrame

RpCancelRejected ==
  /\ rpPending.cancel # NoJob
  /\ rpPending' = [rpPending EXCEPT !.cancel = NoJob]
  /\ UNCHANGED <<jobState, isMountedRef, pollingActiveRef, localStorage, loops,
                 rpConsumer, nJobs>> /\ RpFrame

RpReset ==
  /\ isMountedRef
  /\ SetRpWorld(ResetCall(RpWorld))
  /\ UNCHANGED <<nJobs, rpPending>> /\ RpFrame

(* checkStatus, up to the await of getJobStatus *)
RpCheckStatus ==
  /\ isMountedRef /\ jobState.jobId # NoJob /\ rpPending.check = NoJob
  /\ rpPending' = [rpPending EXCEPT !.check = jobState.jobId]
  /\ UNCHANGED <<jobState, isMountedRef, pollingActiveRef, localStorage, loops,
                 rpConsumer, nJobs>> /\ RpFrame

RpCheckResolved ==
  /\ rpPending.check # NoJob
  /\ \E status \in JobResponses(rpPending.check) :
       SetRpWorld(CheckStatusDone(RpWorld, status))
  /\ rpPending' = [rpPending EXCEPT !.check = NoJob]
  /\ UNCHANGED nJobs /\ RpFrame

RpCheckRejected ==
  /\ rpPending.check # NoJob
  /\ rpPending' = [rpPending EXCEPT !.check = NoJob]
  /\ UNCHANGED <<jobState, isMountedRef, pollingActiveRef, localStorage, loops,
                 rpConsumer, nJobs>> /\ RpFrame

RpUnmount ==
  /\ isMountedRef
  /\ SetRpWorld(RpUnmountHook(RpWorld))
  /\ UNCHANGED <<nJobs, rpPending>> /\ RpFrame

(* ------------------------------ tryOnService --------------------------- *)

(* status of GET /tryon/<sessionId>/status/ *)
TryOnStatuses == {"pending", "processing", "completed", "failed"}

IdleTryOn ==
  [pc |-> "idle",        \* idle | status | delay | returned | thrown | rejected
   defaulted |-> FALSE,  \* called as waitForTryOnCompletion(sessionId)
   maxAttempts |-> 0, delayMs |-> 0,
   attempt |-> 0,        \* the loop variable
   requests |-> 0,       \* getTryOnStatus calls made
   elapsed |-> 0,        \* time spent in the delays
   result |-> "none"]    \* status of the response returned, or "timeout"

(* the head of the for loop: the next getTryOnStatus, or the timeout error *)
TryOnLoop(c) ==
  IF c.attempt < c.maxAttempts
  THEN [c EXCEPT !.pc = "status", !.requests = @ + 1]
  ELSE [c EXCEPT !.pc = "thrown", !.result = "timeout"]

(* waitForTryOnCompletion(sessionId, maxAttempts, delayMs), up to the first
   await *)
WaitForTryOnCompletion(maxAttempts, delayMs, defaulted) ==
  TryOnLoop([IdleTryOn EXCEPT !.maxAttempts = maxAttempts, !.delayMs = delayMs,
                              !.defaulted = defaulted])

(* getTryOnStatus resolved with status *)
TryOnResolved(c, status) ==
  IF status = "completed" \/ status = "failed"
  THEN [c EXCEPT !.pc = "returned", !.result = status]
  ELSE [c EXCEPT !.pc = "delay"]

(* getTryOnStatus rejected: the promise of waitForTryOnCompletion rejects *)
TryOnRejected(c) == [c EXCEPT !.pc = "rejected", !.result = "error"]

(* the delay elapsed: attempt++ and the loop head *)
TryOnDelayed(c) ==
  TryOnLoop([c EXCEPT !.attempt = @ + 1, !.elapsed = @ + c.delayMs])

TryOnInit == tryOn = IdleTryOn

TryOnFrame == UNCHANGED infVars /\ UNCHANGED rpVars

(* the store or the loading screen calls waitForTryOnCompletion(session_id);
   other callers may pass maxAttempts *)
TryOnCall ==
  /\ tryOn.pc = "idle"
  /\ \/ tryOn' = WaitForTryOnCompletion(TryOnDefaultMaxAttempts,
                                         TryOnDefaultDelayMs, TRUE)
     \/ \E n \in 0..MaxTryAttempts :
          tryOn' = WaitForTryOnCompletion(n, TryOnDefaultDelayMs, FALSE)
  /\ TryOnFrame

TryOnStatusResolved ==
  /\ tryOn.pc = "status"
  /\ \E status \in TryOnStatuses : tryOn' = TryOnResolved(tryOn, status)
  /\ TryOnFrame

TryOnStatusRejected ==
  /\ tryOn.pc = "status"
  /\ tryOn' = TryOnRejected(tryOn)
  /\ TryOnFrame

TryOnDelayElapsed ==
  /\ tryOn.pc = "delay"
  /\ tryOn' = TryOnDelayed(tryOn)
  /\ TryOnFrame

(* SpecTryOn: one waitForTryOnCompletion call *)
InitTryOn ==
  /\ InfInit /\ TryOnInit /\ scenario = "tryon" /\ enableRealtime = FALSE
  /\ RpInit /\ rpMaxAttempts = MaxRpAttempts
NextTryOn ==
  TryOnCall \/ TryOnStatusResolved \/ TryOnStatusRejected \/ TryOnDelayElapsed
SpecTryOn == InitTryOn /\ [][NextTryOn]_vars

(* Spec: the hook reconciling the realtime channel and the poll loop *)
Init ==
  /\ InfInit /\ TryOnInit /\ scenario = "hook" /\ enableRealtime \in BOOLEAN
  /\ RpInit /\ rpMaxAttempts = MaxRpAttempts
Next ==
  \/ Render \/ ChangeTaskId \/ ChannelStatus
  \/ RealtimeEvent \/ TaskUpdated
  \/ HookResultsResolved \/ HookResultsRejected
  \/ StatusResolved \/ ResultsResolved \/ TimerFired
Spec == Init /\ [][Next]_vars

(* SpecPoll: the poll loop alone (realtime disabled) under polling headers,
   rate limits, request failures and teardown *)
InitPoll ==
  /\ InfInit /\ TryOnInit /\ scenario = "poll" /\ enableRealtime = FALSE
  /\ RpInit /\ rpMaxAttempts = MaxRpAttempts
NextPoll ==
  \/ Render \/ ChangeTaskId \/ Unmount \/ StopAllPolling
  \/ HookResultsResolved \/ HookResultsRejected
  \/ StatusResolved \/ StatusRateLimited \/ StatusFailed
  \/ ResultsResolved \/ ResultsRateLimited \/ ResultsFailed
  \/ TimerFired
SpecPoll == InitPoll /\ [][NextPoll]_vars

(* SpecRunPod: useRunPodJob and the poll loops it starts *)
InitRunPod ==
  /\ InfInit /\ TryOnInit /\ scenario = "hook" /\ enableRealtime = FALSE
  /\ RpInit /\ rpMaxAttempts \in 1..MaxRpAttempts
NextRunPod ==
  \/ RpStartJob \/ RpCreateResolved \/ RpCreateRejected
  \/ RpStatusResolved \/ RpStatusRejected \/ RpTimerFired
  \/ RpStopPolling \/ RpCancelJob \/ RpCancelResolved \/ RpCancelRejected
  \/ RpReset \/ RpUnmount
SpecRunPod == InitRunPod /\ [][NextRunPod]_vars

(* SpecRunPodInterval: the delays of the RunPod poll loop *)
InitRunPodInterval ==
  /\ InfInit /\ TryOnInit /\ scenario = "interval" /\ enableRealtime = FALSE
  /\ RpInit /\ rpMaxAttempts \in 1..MaxRpAttempts
SpecRunPodInterval == InitRunPodInterval /\ [][NextRunPod]_vars

(* SpecRunPodCreate: the same with startJob calls that fail *)
InitRunPodCreate ==
  /\ InfInit /\ TryOnInit /\ scenario = "create" /\ enableRealtime = FALSE
  /\ RpInit /\ rpMaxAttempts \in 1..MaxRpAttempts
SpecRunPodCreate == InitRunPodCreate /\ [][NextRunPod]_vars

(* the entry of job 1 an earlier page load left with the given status *)
PersistedEntry(status) ==
  CASE status = "none" -> NoEntry
    [] status = "COMPLETED" ->
         CompletedEntry(JobEntry(1),
                        [job_id |-> 1, status |-> "COMPLETED", error |-> NoErr])
    [] OTHER -> [JobEntry(1) EXCEPT !.status = status]

(* the mount effect "Restoration des jobs depuis localStorage": its body is
   commented out, it only logs *)
RestorationEffect(w) == w

(* SpecRunPodMount: the hook mounts over what an earlier page load persisted:
   nothing, or an entry for job 1 that is younger (scenario "young") or older
   (scenario "old") than 30 minutes *)
InitRunPodMount ==
  /\ InfInit /\ TryOnInit /\ scenario \in {"young", "old"} /\ enableRealtime = FALSE
  /\ rpMaxAttempts = MaxRpAttempts
  /\ rpPending = [create |-> FALSE, cancel |-> NoJob, check |-> NoJob]
  /\ \E persisted \in {"none", "IN_QUEUE", "IN_PROGRESS", "COMPLETED"} :
       LET w == RestorationEffect(
                  [jobState |-> [jobId |-> NoJob, status |-> NullJobStatus,
                                 isPolling |-> FALSE, error |-> NoErr],
                   isMounted |-> TRUE, pollingActive |-> FALSE,
                   storage |-> [j \in JobIds |->
                                  IF j = 1 THEN PersistedEntry(persisted)
                                  ELSE NoEntry],
                   loops |-> [j \in JobIds |-> IdleLoop],
                   consumer |-> [onStatusUpdate |-> 0, onComplete |-> 0,
                                 onError |-> 0, lastError |-> NoErr]])
       IN  /\ jobState = w.jobState /\ isMountedRef = w.isMounted
           /\ pollingActiveRef = w.pollingActive /\ localStorage = w.storage
           /\ loops = w.loops /\ rpConsumer = w.consumer
           /\ nJobs = IF persisted = "none" THEN 0 ELSE 1
SpecRunPodMount == InitRunPodMount /\ [][NextRunPod]_vars

(* SpecRunPodCheck: the same with manual checkStatus() calls *)
NextRunPodCheck ==
  NextRunPod \/ RpCheckStatus \/ RpCheckResolved \/ RpCheckRejected
SpecRunPodCheck == InitRunPod /\ [][NextRunPodCheck]_vars

(* SpecPollInterval: the delays of the inference poll loop *)
InitPollInterval ==
  /\ InfInit /\ TryOnInit /\ scenario = "interval" /\ enableRealtime = FALSE
  /\ RpInit /\ rpMaxAttempts = MaxRpAttempts
NextPollInterval ==
  \/ Render \/ ChangeTaskId
  \/ StatusResolved \/ StatusRateLimited \/ TimerFired
SpecPollInterval == InitPollInterval /\ [][NextPollInterval]_vars

(* SpecTeardown: either the inference tracker or the RunPod tracker runs,
   with the calls that stop them *)
InitTeardown ==
  /\ InfInit /\ TryOnInit /\ scenario \in {"hook", "runpod"} /\ enableRealtime = FALSE
  /\ RpInit /\ rpMaxAttempts = MaxRpAttempts
NextTeardownInf ==
  \/ Render \/ ChangeTaskId \/ Unmount \/ StopAllPolling
  \/ HookResultsResolved \/ StatusResolved \/ ResultsResolved \/ TimerFired
NextTeardown ==
  \/ scenario = "hook" /\ NextTeardownInf
  \/ scenario = "runpod" /\ NextRunPod
SpecTeardown == InitTeardown /\ [][NextTeardown]_vars

(* SpecDrop: realtime and polling enabled, the channel delivers no fragment
   and goes down while the poll loop runs *)
InitDrop ==
  /\ InfInit /\ TryOnInit /\ scenario = "hook" /\ enableRealtime = TRUE
  /\ RpInit /\ rpMaxAttempts = MaxRpAttempts
NextDrop ==
  \/ Render \/ ChangeTaskId \/ ChannelStatus \/ ChannelDropped
  \/ HookResultsResolved \/ StatusResolved \/ ResultsResolved \/ TimerFired
SpecDrop == InitDrop /\ [][NextDrop]_vars

(* SpecSwitch: polling only; the parent replaces task A by task B while the
   poll session of A may have a request in flight *)
InitSwitch ==
  /\ InfInit /\ TryOnInit /\ scenario = "switch" /\ enableRealtime = FALSE
  /\ RpInit /\ rpMaxAttempts = MaxRpAttempts
NextSwitch ==
  \/ Render \/ ChangeTaskId
  \/ HookResultsResolved \/ StatusResolved \/ ResultsResolved \/ TimerFired
SpecSwitch == InitSwitch /\ [][NextSwitch]_vars

(* ------------------------------ claims --------------------------------- *)

(* C1: with realtime and polling both enabled, the consumer receives at most
   one terminal notification (onComplete or onError) for a task while the
   hook tracks it *)
C1_AtMostOneTerminalNotification ==
  (enableRealtime /\ enablePolling) =>
    \A t \in TaskIds : consumer[t].onComplete + consumer[t].onError <= 1

(* no request of the tracker is pending and no render is due *)
Settled ==
  /\ Stable
  /\ \A t \in TaskIds : fetches[t] = 0
  /\ \A s \in 1..MaxSessions : sessions[s].pc # "results"

(* C2: polling only; after the responses IN_QUEUE/0, IN_PROGRESS/40,
   COMPLETED/100 the consumer has observed exactly one onComplete *)
C2_ScenarioAOneOnComplete ==
  (~enableRealtime /\ monitor = "A3" /\ Settled) => consumer["A"].onComplete = 1

(* C3: realtime delivers FAILED with an error message and the next poll
   response is FAILED too: onError is called exactly once *)
C3_ScenarioBOneOnError ==
  monitor = "B2" => consumer["A"].onError = 1

(* C4: once the exposed status is COMPLETED, FAILED or CANCELLED no later
   fragment changes any of its fields *)
C4_TerminalStatusFrozen ==
  [][state.status.status \in Terminal => state'.status = state.status]_vars

(* C5: the progress of the exposed status never decreases from one snapshot
   to the next *)
C5_ProgressNonDecreasing ==
  [][state'.status.progress >= state.status.progress]_vars

(* the hook, which is all the callbacks given to startPolling act upon *)
hookVars == <<state, hasCompletedRef, lastStatusRef, fetches, consumer>>

(* C6: when a request that was in flight while stopPolling/stopAllPolling was
   called settles, none of the callbacks given to startPolling is invoked, so
   nothing they act upon changes *)
C6_NoCallbackAfterStop ==
  [][\A s \in 1..MaxSessions :
       (sessions[s].stopped /\ InFlight(sessions[s]) /\ sessions'[s] # sessions[s])
         => UNCHANGED hookVars]_vars

(* C8: a session never makes more status requests than its maxAttempts and
   makes none once its totalTimeout has elapsed *)
C8_RequestsWithinCeilings ==
  [][\A s \in 1..MaxSessions :
       (sessions[s].pc = "timer" /\ sessions'[s].pc = "status")
         => /\ sessions'[s].attempts <= sessions'[s].maxAttempts
            /\ now' - sessions[s].startTime < sessions[s].totalTimeout]_vars

(* C10: the inference poll loop reports a Timeout error only when the last
   response it received was not COMPLETED, FAILED or CANCELLED *)
C10_NoTimeoutOnTerminalResponse ==
  \A s \in 1..MaxSessions :
    sessions[s].outcome \in {"timeout-attempts", "timeout-time"}
      => sessions[s].timedOutOn \notin Terminal

(* C7: once stopPolling(), cancelJob() or reset() has returned, or the hook
   has unmounted, a poll loop started before makes no further getJobStatus
   request and calls no consumer callback *)
C7_NoActivityAfterStop ==
  [][\A j \in JobIds :
       (loops[j].stopped /\ loops'[j] # loops[j])
         => (loops'[j].pc # "status" /\ rpConsumer' = rpConsumer)]_vars

(* poll() of job j received a non-terminal status in this step *)
NonTerminalResponse(j) ==
  /\ loops[j].pc = "status" /\ loops'[j].pc # "status"
  /\ rpConsumer'.onStatusUpdate = rpConsumer.onStatusUpdate + 1
  /\ loops'[j].lastObserved \in NonTerminal

(* C9: with maxAttempts = N and only non-terminal responses, every response
   before the N-th schedules the next request without a terminal callback, and
   the N-th ends the loop with exactly one onError carrying the exhausted
   error, no onComplete, and the hook's status left at the non-terminal value
   just observed *)
C9_ExhaustedAfterNRequests ==
  [][\A j \in JobIds :
       NonTerminalResponse(j) =>
         IF loops[j].attempts < rpMaxAttempts
         THEN /\ loops'[j].pc = "timer"
              /\ loops'[j].attempts = loops[j].attempts
              /\ rpConsumer'.onError = rpConsumer.onError
              /\ rpConsumer'.onComplete = rpConsumer.onComplete
         ELSE /\ loops[j].attempts = rpMaxAttempts
              /\ loops'[j].pc = "done" /\ loops'[j].outcome = "exhausted"
              /\ rpConsumer'.onError = rpConsumer.onError + 1
              /\ rpConsumer'.lastError = "Timeout"
              /\ rpConsumer'.onComplete = rpConsumer.onComplete
              /\ isMountedRef =>
                   /\ jobState'.status.status = loops'[j].lastObserved
                   /\ jobState'.error = "Timeout"]_vars

(* a loop with maxAttempts >= 2 got maxAttempts non-terminal responses and
   nothing else, and ended exhausted *)
C9_Witness ==
  /\ rpMaxAttempts >= 2 /\ isMountedRef
  /\ loops[1].pc = "done" /\ loops[1].outcome = "exhausted"
  /\ loops[1].lastObserved \in NonTerminal
  /\ rpConsumer = [onStatusUpdate |-> rpMaxAttempts, onComplete |-> 0,
                   onError |-> 1, lastError |-> "Timeout"]
  /\ jobState.status.status = loops[1].lastObserved
  /\ jobState.error = "Timeout"

(* C11: a status request that fails with a network error or a 5xx response
   is retried; it never ends the poll session with the error handed to
   onError *)
C11_TransientFailureRetried ==
  [][\A s \in 1..MaxSessions :
       sessions[s].pc = "status" => sessions'[s].outcome # "poll-error"]_vars

(* C12: in an active session a 429 response with retry-after = r schedules
   the next status request at least r seconds later (at least 5 s and at least
   the current interval when the header is absent), the request is not sent
   before that, and onError is not called *)
C12_RetryAfterHonoured ==
  [][\A s \in 1..MaxSessions :
       /\ (sessions[s].pc = "status" /\ sessions[s].isActive) =>
            \A h \in RetryAfterHeaders :
              LET w == PollCatch(World, s, 429, ParseRetryAfter(h), now)
                  delay == w.sessions[s].due - now
              IN  /\ w.sessions[s].pc = "timer"
                  /\ h.present => delay >= h.seconds * 1000
                  /\ ~h.present => (delay >= 5000 /\ delay >= sessions[s].currentInterval)
                  /\ w.consumer = consumer /\ w.state = state
       /\ (sessions[s].pc = "timer" /\ sessions'[s].pc = "status") =>
            now' >= sessions[s].due]_vars

(* a request was sent HintRetryAfter seconds after a 429 that asked for it *)
C12_Witness ==
  \E s \in 1..MaxSessions :
    /\ sessions[s].pc = "status" /\ sessions[s].isActive
    /\ sessions[s].attempts >= 2
    /\ sessions[s].currentInterval = HintRetryAfter * 1000
    /\ now >= sessions[s].startTime + HintRetryAfter * 1000
    /\ consumer["A"].onError = 0

(* C13: the delay before the next poll of runpodService.pollJobStatus never
   exceeds the maximum interval and never goes below 0.8 times the base
   interval, whatever the responses and fetch errors *)
C13_DelayWithinBounds ==
  \A j \in JobIds :
    loops[j].pc = "timer" =>
      /\ loops[j].currentInterval <= RpMaxInterval
      /\ loops[j].currentInterval * 10 >= RpInitialInterval * 8

(* C14: when cancelJob() finishes while the local status is COMPLETED or
   FAILED, that status is left unchanged *)
C14_CancelKeepsTerminalStatus ==
  [][(rpPending.cancel # NoJob /\ rpPending'.cancel = NoJob
      /\ jobState.status.status \in {"COMPLETED", "FAILED"})
       => jobState'.status = jobState.status]_vars

PristineJobState ==
  [jobId |-> NoJob, status |-> NullJobStatus, isPolling |-> FALSE, error |-> NoErr]

(* reset() has returned and startJob has not been called since *)
AfterReset ==
  /\ isMountedRef /\ nJobs >= 1 /\ ~rpPending.create
  /\ jobState = PristineJobState

(* C15: after reset() the hook state stays pristine and the persisted
   entries stay as reset() left them until the next startJob, whatever
   responses for the old job arrive *)
C15_ResetStaysPristine ==
  [][(AfterReset /\ (rpPending'.create <=> rpPending.create) /\ isMountedRef')
       => (jobState' = PristineJobState /\ localStorage' = localStorage)]_vars

(* C16: stopPolling(taskId) of inferenceService, and stopPolling() and
   reset() of useRunPodJob, called a second time leave everything as the first
   call left it, also when nothing is tracked *)
C16_TeardownIdempotent ==
  /\ \A t \in TaskIds :
       StopPollingCall(StopPollingCall(World, t), t) = StopPollingCall(World, t)
  /\ RpStopPollingCall(RpStopPollingCall(RpWorld)) = RpStopPollingCall(RpWorld)
  /\ ResetCall(ResetCall(RpWorld)) = ResetCall(RpWorld)

(* a poll session of task A is in flight and registered: stopPolling("A")
   changes something; a tracked job is being polled: reset() changes something *)
C16_Witness ==
  \/ /\ activePollers["A"] # 0
     /\ sessions[activePollers["A"]].pc = "status"
     /\ StopPollingCall(World, "A") # World
  \/ /\ jobState.jobId # NoJob /\ jobState.isPolling /\ localStorage[1].status # "none"
     /\ loops[1].pc = "status"
     /\ ResetCall(RpWorld) # RpWorld
     /\ RpStopPollingCall(RpWorld) # RpWorld

(* C17: startPolling for a task that already has a registered session is a
   no-op: the session keeps its counters and stays the registered one, and no
   other session is created *)
C17_DuplicateStartIsNoOp ==
  \A t \in TaskIds :
    (activePollers[t] # 0 /\ nSessions < MaxSessions) =>
      LET w == StartPolling(World, t, now)
      IN  /\ w.activePollers[t] = activePollers[t]
          /\ w.sessions[activePollers[t]] = sessions[activePollers[t]]
          /\ w.nSessions = nSessions

(* C18: a startJob whose createJob rejects changes neither jobId, status nor
   isPolling, writes no entry and starts no loop; the call cannot know the
   outcome, so neither the call nor the rejection may change them *)
C18_FailedCreateLeavesState ==
  [][(rpPending'.create # rpPending.create /\ nJobs' = nJobs) =>
       /\ jobState'.jobId = jobState.jobId
       /\ jobState'.status = jobState.status
       /\ jobState'.isPolling = jobState.isPolling
       /\ localStorage' = localStorage
       /\ loops' = loops]_vars

(* C19: once the hook has mounted over a persisted entry of job 1 that is
   non-terminal and younger than 30 minutes, a poll loop for job 1 has been
   started *)
C19_YoungEntryResumed ==
  (scenario = "young" /\ nJobs = 1 /\ localStorage[1].status \in NonTerminal)
    => loops[1].pc # "idle"

(* C20: getTaskResults is requested at most once per task by one tracker, so
   two such requests for a task are never pending together *)
C20_AtMostOneResultsFetch ==
  \A t \in TaskIds :
    fetches[t] + Cardinality({s \in 1..MaxSessions :
                                sessions[s].taskId = t /\ sessions[s].pc = "results"})
      <= 1

(* a terminal notification was delivered to the consumer for task t *)
Notified(t) == consumer[t].onComplete + consumer[t].onError >= 1

(* C21: once a terminal notification, an exhaustion or a polling error was
   delivered for the tracked task, no new poll session is started and no
   further getTaskStatus request is made while taskId is unchanged *)
C21_RetiredAfterTerminal ==
  [][\A t \in TaskIds :
       (mounted /\ mounted' /\ taskId = t /\ taskId' = t /\ Notified(t)) =>
         /\ nSessions' = nSessions
         /\ \A s \in 1..MaxSessions :
              (sessions[s].taskId = t /\ sessions[s].pc # "status")
                => sessions'[s].pc # "status"]_vars

(* C22: a response with status FAILED makes the session call onError and end,
   a response with status COMPLETED makes it fetch the results for onComplete,
   whatever polling headers the response carries *)
C22_TerminalStatusNotified ==
  \A s \in 1..MaxSessions :
    (sessions[s].pc = "status" /\ sessions[s].isActive) =>
      \A body \in StatusBodies, info \in PollingInfos :
        LET w == PollStatusResolved(World, s, body, info, 500, now)
        IN  /\ body.status = "FAILED" =>
                 (w.sessions[s].pc = "done" /\ w.sessions[s].outcome = "failed")
            /\ body.status = "COMPLETED" => w.sessions[s].pc = "results"

(* C23: the channel reported CHANNEL_ERROR, TIMED_OUT or CLOSED while the task
   was not terminal and the poll loop observed COMPLETED afterwards: once
   everything has settled a poll session has run to its end and onComplete
   was called exactly once *)
C23_ChannelDropOneOnComplete ==
  (monitor = "D2" /\ Settled) => consumer["A"].onComplete = 1

(* C24: whenever the exposed status is COMPLETED its progress is 100 *)
C24_CompletedProgressPinned ==
  state.status.status = "COMPLETED" => state.status.progress = 100

(* C25: in an active session a successful response that recommends an
   interval of r seconds and lets the session continue schedules the next
   status request between 800 r and 1200 r milliseconds later, whatever the
   interval was before, and the request is not sent before that *)
C25_RecommendedIntervalHonoured ==
  [][\A s \in 1..MaxSessions :
       /\ (sessions[s].pc = "status" /\ sessions[s].isActive) =>
            \A body \in PollBodies, info \in PollingInfos, k \in JitterSamples :
              LET w == PollStatusResolved(World, s, body, info, k, now)
                  r == info.recommendedInterval
                  delay == w.sessions[s].due - now
              IN  w.sessions[s].pc = "timer" =>
                    /\ 800 * r <= delay /\ delay <= 1200 * r
                    /\ delay = w.sessions[s].currentInterval
       /\ (sessions[s].pc = "timer" /\ sessions[s].isActive
           /\ sessions'[s].pc = "status") =>
            now' >= sessions[s].due]_vars

(* after a 429 raised the interval to HintRetryAfter seconds, a response
   recommended HintInterval seconds and the next request left 0.8 times
   HintInterval seconds later *)
C25_Witness ==
  \E s \in 1..MaxSessions :
    /\ sessions[s].pc = "status" /\ sessions[s].isActive
    /\ sessions[s].attempts = 3
    /\ HintRetryAfter * 1000 > 1200 * HintInterval
    /\ sessions[s].currentInterval = 800 * HintInterval
    /\ now = sessions[s].startTime + HintRetryAfter * 1000 + 800 * HintInterval

(* C26: called with its defaults waitForTryOnCompletion checks at most 10
   times, 2 seconds apart, 20 seconds in total; for any maxAttempts it returns
   the first completed or failed response without another request, and throws
   the timeout error after exactly maxAttempts requests *)
C26_TryOnPollBudget ==
  /\ tryOn.defaulted =>
       /\ tryOn.requests <= 10 /\ tryOn.delayMs = 2000
       /\ tryOn.elapsed <= 20000
  /\ tryOn.pc = "returned" =>
       (tryOn.result \in {"completed", "failed"} /\ tryOn.requests = tryOn.attempt + 1)
  /\ tryOn.pc = "thrown" =>
       (tryOn.result = "timeout" /\ tryOn.requests = tryOn.maxAttempts)

(* C27: after taskId changed from A to B, a response to a status request of
   A's session that was in flight leaves the exposed status and the completion
   flag as they are and calls no consumer callback *)
C27_LateResponseIgnored ==
  [][\A s \in 1..MaxSessions :
       (mounted /\ taskId = "B" /\ sessions[s].taskId = "A"
        /\ sessions[s].pc = "status" /\ sessions'[s].pc # "status")
         => /\ state'.status = state.status
            /\ hasCompletedRef' = hasCompletedRef
            /\ consumer' = consumer]_vars

(* C28: when the request of a session that startPolling superseded resolves,
   the session that replaced it is still registered in activePollers and
   still active *)
C28_SupersededSessionHarmless ==
  [][\A s, n \in 1..MaxSessions :
       (/\ s # n /\ sessions[s].pc = "status" /\ sessions'[s].pc # "status"
        /\ ~sessions[s].isActive
        /\ sessions[n].taskId = sessions[s].taskId
        /\ activePollers[sessions[s].taskId] = n /\ sessions[n].isActive)
         => /\ activePollers'[sessions[s].taskId] = n
            /\ sessions'[n].isActive]_vars

(* calls of the terminal callbacks onComplete and onError so far *)
RpTerminalCalls(c) == c.onComplete + c.onError

(* the outcome w of a settled request of loop j: either the next request is
   scheduled, within maxAttempts and with no terminal callback, or the loop
   has ended with one terminal callback *)
RpEndsOrContinues(w, j) ==
  \/ /\ w.loops[j].pc = "timer" /\ loops[j].attempts < rpMaxAttempts
     /\ RpTerminalCalls(w.consumer) = RpTerminalCalls(rpConsumer)
  \/ /\ w.loops[j].pc = "done"
     /\ RpTerminalCalls(w.consumer) = RpTerminalCalls(rpConsumer) + 1

(* C29: a pollJobStatus loop never makes more than maxAttempts status
   requests; every response or fetch error either schedules the next request
   with no terminal callback or ends the loop with exactly one; a loop that
   has ended has called exactly one terminal callback and a running one none *)
C29_PollJobStatusBounded ==
  /\ RpTerminalCalls(rpConsumer) = Cardinality({j \in JobIds : loops[j].pc = "done"})
  /\ \A j \in JobIds :
       /\ loops[j].attempts <= rpMaxAttempts
       /\ loops[j].pc = "status" =>
            /\ \A status \in JobResponses(j), k \in RpJitterSamples :
                 RpEndsOrContinues(
                   RpPollResolved(RpWorld, j, status, rpMaxAttempts, k), j)
            /\ \A httpStatus \in {404, 500} :
                 RpEndsOrContinues(
                   RpPollRejected(RpWorld, j, httpStatus, rpMaxAttempts), j)

(* a loop with maxAttempts >= 2 got a non-terminal response, then a fetch
   error, and ended with one onError and no onComplete *)
C29_Witness ==
  /\ rpMaxAttempts >= 2
  /\ loops[1].pc = "done" /\ loops[1].outcome = "polling-error"
  /\ loops[1].lastObserved \in NonTerminal
  /\ rpConsumer.onStatusUpdate = 1
  /\ rpConsumer.onError = 1 /\ rpConsumer.onComplete = 0

(* C30: when a COMPLETED response of job j reaches handleComplete, an absent
   entry runpod_job_<j> stays absent, an existing one gets status COMPLETED
   and the result while its jobId, startTime and request stay as they were,
   and no other entry changes *)
C30_CompletionUpdatesExistingEntryOnly ==
  [][\A j \in JobIds :
       (loops[j].pc = "status" /\ loops'[j].outcome = "complete") =>
         /\ IF localStorage[j].status = "none"
            THEN localStorage'[j] = NoEntry
            ELSE /\ localStorage'[j].status = "COMPLETED"
                 /\ localStorage'[j].result =
                      [job_id |-> j, status |-> "COMPLETED", error |-> NoErr]
                 /\ localStorage'[j].jobId = localStorage[j].jobId
                 /\ localStorage'[j].startTime = localStorage[j].startTime
                 /\ localStorage'[j].request = localStorage[j].request
         /\ \A i \in JobIds \ {j} : localStorage'[i] = localStorage[i]]_vars

(* reset() removed the entry of job 1, then the completion of job 1 arrived
   (it put the result into the hook state) and the entry is still absent *)
C30_Witness ==
  /\ isMountedRef /\ nJobs = 1
  /\ loops[1].pc = "done" /\ loops[1].outcome = "complete"
  /\ jobState.jobId = NoJob /\ jobState.status.status = "COMPLETED"
  /\ localStorage[1] = NoEntry

====
